---------------------------- MODULE Spec2Model ----------------------------
(***************************************************************************)
(* A model of stdin_nonblocking (src/src/lib.rs) and of its two hosts,     *)
(* test_binary and tokio-example-app.                                      *)
(*                                                                         *)
(* The input source (the process's stdin) is a byte stream: `input` is     *)
(* what the writer of the pipe (or the person at the terminal) will ever   *)
(* write, `wpos` how much of it has been written, `rpos` how much of it    *)
(* the readers have consumed, `wclosed` whether the write end is closed.   *)
(* Bytes are numbers 0..255, strings and byte vectors are sequences of     *)
(* bytes, an Option is a record [some, val].                               *)
(***************************************************************************)
EXTENDS Integers, Sequences, FiniteSets, TLC

\* ------------------------------------------------------------- bounds
\* Longest enumerated input, in bytes.
MaxLen == 3
\* Calls of get_stdin_or_default in one run.
MaxCalls == 2
\* Longest enumerated input when a stream and get_stdin_or_default share
\* the source.
MaxSharedLen == 2
\* Lines, beyond the capacity of the async channel, of the longest input
\* piped to tokio-example-app.
ExtraLines == 2

\* ---------------------------------------------------------- constants
\* b'\n', the byte read_line reads up to.
LF == 10

\* const BUFFER_SIZE: usize = 10;
BUFFER_SIZE == 10
\* const FALLBACK_VALUE: &[u8] = b"fallback_value";
FALLBACK_VALUE == <<102, 97, 108, 108, 98, 97, 99, 107, 95, 118, 97, 108, 117, 101>>

\* The inputs of tests/stdin_tests.rs.
TestBinaryInput == <<222, 173, 190, 239>>
TestTextInput == <<72, 101, 108, 108, 111, 44, 32, 98, 105, 110, 97, 114, 121, 32,
                   119, 111, 114, 108, 100, 33>>

\* The bytes inputs are drawn from: "\n", " ", "a", and 0xBE, a UTF-8
\* continuation byte that is invalid on its own.
Alphabet == {LF, 32, 97, 190}

RECURSIVE SeqsUpTo(_, _)
SeqsUpTo(S, n) ==
    IF n = 0 THEN {<<>>}
    ELSE LET shorter == SeqsUpTo(S, n - 1)
         IN  shorter \cup {Append(s, b) : s \in {t \in shorter : Len(t) = n - 1}, b \in S}

Inputs == SeqsUpTo(Alphabet, MaxLen)

\* Option<&[u8]>
None == [some |-> FALSE, val |-> <<>>]
Some(v) == [some |-> TRUE, val |-> v]
\* default.unwrap_or(b"").to_vec()
UnwrapOr(opt, other) == IF opt.some THEN opt.val ELSE other

Defaults == {None, Some(FALLBACK_VALUE), Some(<<97>>)}

\* ------------------------------------------------- pure functions
\* char::is_whitespace on the one-byte (ASCII) code points; no multi-byte
\* White_Space code point can be formed from the bytes the model draws.
IsWhitespace(b) == b \in {9, 10, 11, 12, 13, 32}

RECURSIVE TrimStart(_)
TrimStart(s) ==
    IF s # <<>> /\ IsWhitespace(Head(s)) THEN TrimStart(Tail(s)) ELSE s

RECURSIVE TrimEnd(_)
TrimEnd(s) ==
    IF s # <<>> /\ IsWhitespace(s[Len(s)])
    THEN TrimEnd(SubSeq(s, 1, Len(s) - 1))
    ELSE s

\* A plausible slip: only the end of the line is trimmed.
TrimOnlyEnd(s) == TrimEnd(s)

\* buffer.trim(): leading and trailing whitespace removed.
Trim(s) == TrimEnd(TrimStart(s))

IsCont(b) == b >= 128 /\ b <= 191

\* The UTF-8 validation read_line applies to the bytes of a line.
RECURSIVE IsUtf8(_)
IsUtf8(s) ==
    IF s = <<>> THEN TRUE
    ELSE LET b == s[1]
             n == Len(s)
         IN  IF b < 128 THEN IsUtf8(Tail(s))
             ELSE IF b >= 194 /\ b <= 223
                  THEN n >= 2 /\ IsCont(s[2]) /\ IsUtf8(SubSeq(s, 3, n))
             ELSE IF b >= 224 /\ b <= 239
                  THEN /\ n >= 3
                       /\ IsCont(s[2])
                       /\ (b = 224 => s[2] >= 160)
                       /\ (b = 237 => s[2] <= 159)
                       /\ IsCont(s[3])
                       /\ IsUtf8(SubSeq(s, 4, n))
             ELSE IF b >= 240 /\ b <= 244
                  THEN /\ n >= 4
                       /\ IsCont(s[2])
                       /\ (b = 240 => s[2] >= 144)
                       /\ (b = 244 => s[2] <= 143)
                       /\ IsCont(s[3])
                       /\ IsCont(s[4])
                       /\ IsUtf8(SubSeq(s, 5, n))
             ELSE FALSE

\* Index of the first LF of s, 0 when there is none.
RECURSIVE NewlineFrom(_, _)
NewlineFrom(s, i) ==
    IF i > Len(s) THEN 0
    ELSE IF s[i] = LF THEN i
    ELSE NewlineFrom(s, i + 1)

NewlineAt(s) == NewlineFrom(s, 1)

\* What read_until(b'\n') takes from the unread bytes: up to and including
\* the first LF, or all of them at end-of-stream.
LineOf(s) == IF NewlineAt(s) > 0 THEN SubSeq(s, 1, NewlineAt(s)) ELSE s

\* The wrong branch: a whitespace-only buffer counts as no input.
GetStdinResultBlank(buffer, default) ==
    IF Trim(buffer) # <<>> THEN buffer ELSE UnwrapOr(default, <<>>)

\* A slip: the buffer is returned whether or not it is empty.
GetStdinResultNoDefault(buffer, default) == buffer

\* if !buffer.is_empty() { buffer } else { default.unwrap_or(b"").to_vec() }
GetStdinResult(buffer, default) ==
    IF buffer # <<>> THEN buffer ELSE UnwrapOr(default, <<>>)

\* ------------------------------------------------------------ state
VARIABLES
    \* the input source
    isTerminal, input, wpos, wclosed, rpos, fault, stdinLock, readers, readLog,
    \* spawn_stdin_stream: its caller, its worker, its channel
    mpc, wpc, buffer, txAlive, rxAlive, chan, sent, received, lastRecv,
    dropReads,
    \* a second call of spawn_stdin_stream: its caller, its worker, its channel
    m2pc, w2pc, buffer2, chan2,
    \* get_stdin_or_default: its caller
    gpc, gdefault, gbuf, gresults,
    \* tokio-example-app: the forwarder thread, the async channel, main
    fpc, fchunk, tchan, ttxAlive, mchunk, receivedAny, stdout

envVars == <<isTerminal, input, wpos, wclosed, rpos, fault, stdinLock, readers, readLog>>
streamVars == <<mpc, wpc, buffer, txAlive, rxAlive, chan, sent, received, lastRecv, dropReads>>
aggVars == <<gpc, gdefault, gbuf, gresults>>
tokVars == <<fpc, fchunk, tchan, ttxAlive, mchunk, receivedAny, stdout>>
secondVars == <<m2pc, w2pc, buffer2, chan2>>
vars == <<envVars, streamVars, aggVars, tokVars, secondVars>>

\* The bytes written to the source and not yet consumed by a reader.
Unread == SubSeq(input, rpos + 1, wpos)
\* The write end is closed and everything written has been consumed.
AtEof == wclosed /\ rpos = wpos

\* The log of the reads of the source: who read, in order, a run of reads
\* by the same reader being logged once.
LogRead(who) ==
    IF readLog # <<>> /\ readLog[Len(readLog)] = who
    THEN readLog
    ELSE Append(readLog, who)

\* io::stdin().is_terminal()
StdinIsTerminal == isTerminal

InitWith(ins) ==
    /\ isTerminal \in BOOLEAN
    /\ input \in ins
    /\ wpos = 0
    /\ wclosed = FALSE
    /\ rpos = 0
    /\ fault = "none"
    /\ stdinLock = "free"
    /\ readers = {}
    /\ readLog = <<>>
    /\ mpc = "start"
    /\ wpc = "none"
    /\ buffer = <<>>
    /\ txAlive = FALSE
    /\ rxAlive = FALSE
    /\ chan = <<>>
    /\ sent = <<>>
    /\ received = <<>>
    /\ lastRecv = "none"
    /\ dropReads = 0
    /\ m2pc = "start"
    /\ w2pc = "none"
    /\ buffer2 = <<>>
    /\ chan2 = <<>>
    /\ gpc = "idle"
    /\ gdefault = None
    /\ gbuf = <<>>
    /\ gresults = <<>>
    /\ fpc = "none"
    /\ fchunk = <<>>
    /\ tchan = <<>>
    /\ ttxAlive = FALSE
    /\ mchunk = <<>>
    /\ receivedAny = FALSE
    /\ stdout = <<>>

Init == InitWith(Inputs)

\* ------------------------------------------------ the input source
\* The writer of the pipe (or the person typing) delivers one more byte.
WriterWrite ==
    /\ ~wclosed
    /\ wpos < Len(input)
    /\ wpos' = wpos + 1
    /\ UNCHANGED <<isTerminal, input, wclosed, rpos, fault, stdinLock, readers, readLog>>
    /\ UNCHANGED <<streamVars, aggVars, secondVars, tokVars>>

\* The writer closes its end, once it has written everything; it may also
\* never do so.
WriterClose ==
    /\ ~wclosed
    /\ wpos = Len(input)
    /\ wclosed' = TRUE
    /\ UNCHANGED <<isTerminal, input, wpos, rpos, fault, stdinLock, readers, readLog>>
    /\ UNCHANGED <<streamVars, aggVars, secondVars, tokVars>>

\* The source goes bad: the next read of it returns an I/O error.
SourceFails ==
    /\ fault = "none"
    /\ fault' = "armed"
    /\ UNCHANGED <<isTerminal, input, wpos, wclosed, rpos, stdinLock, readers, readLog>>
    /\ UNCHANGED <<streamVars, aggVars, secondVars, tokVars>>

\* ------------------------------------------------ spawn_stdin_stream
\* A slip: the terminal check is missing and the worker is always started.
SpawnStdinStreamNoCheck ==
    /\ mpc = "start"
    /\ mpc' = "hasRx"
    /\ chan' = <<>>
    /\ rxAlive' = TRUE
    /\ txAlive' = TRUE
    /\ wpc' = "lock"
    /\ UNCHANGED <<buffer, sent, received, lastRecv, dropReads>>
    /\ UNCHANGED <<envVars, aggVars, secondVars, tokVars>>

\* A slip: on a terminal the sender is kept alive instead of dropped.
SpawnStdinStreamKeepsSender ==
    /\ mpc = "start"
    /\ mpc' = "hasRx"
    /\ chan' = <<>>
    /\ rxAlive' = TRUE
    /\ txAlive' = TRUE
    /\ wpc' = IF StdinIsTerminal THEN "none" ELSE "lock"
    /\ UNCHANGED <<buffer, sent, received, lastRecv, dropReads>>
    /\ UNCHANGED <<envVars, aggVars, secondVars, tokVars>>

\* A slip: the read loop's first read_line runs in the calling thread,
\* before the thread is spawned.
SpawnStdinStreamReadsInline ==
    /\ mpc = "start"
    /\ \/ StdinIsTerminal
       \/ NewlineAt(Unread) > 0
       \/ AtEof
    /\ mpc' = "hasRx"
    /\ chan' = <<>>
    /\ rxAlive' = TRUE
    /\ txAlive' = ~StdinIsTerminal
    /\ wpc' = IF StdinIsTerminal THEN "none" ELSE "lock"
    /\ readers' = IF StdinIsTerminal THEN readers ELSE readers \cup {"main"}
    /\ readLog' = IF StdinIsTerminal THEN readLog ELSE LogRead("main")
    /\ UNCHANGED <<buffer, sent, received, lastRecv, dropReads>>
    /\ UNCHANGED <<isTerminal, input, wpos, wclosed, rpos, fault, stdinLock>>
    /\ UNCHANGED <<aggVars, secondVars, tokVars>>

\* The call, in the calling thread: the channel is created; on a terminal
\* rx is returned and tx dropped with the call's frame; otherwise tx moves
\* into the spawned worker and rx is returned.
SpawnStdinStream ==
    /\ mpc = "start"
    /\ mpc' = "hasRx"
    /\ chan' = <<>>
    /\ rxAlive' = TRUE
    /\ txAlive' = ~StdinIsTerminal
    /\ wpc' = IF StdinIsTerminal THEN "none" ELSE "lock"
    /\ UNCHANGED <<buffer, sent, received, lastRecv, dropReads>>
    /\ UNCHANGED <<envVars, aggVars, secondVars, tokVars>>

\* The worker: let mut stdin_lock = stdin.lock();
WorkerLock ==
    /\ wpc = "lock"
    /\ stdinLock = "free"
    /\ stdinLock' = "worker"
    /\ wpc' = "read"
    /\ UNCHANGED <<isTerminal, input, wpos, wclosed, rpos, fault, readers, readLog>>
    /\ UNCHANGED <<mpc, buffer, txAlive, rxAlive, chan, sent, received, lastRecv, dropReads>>
    /\ UNCHANGED <<aggVars, secondVars, tokVars>>

\* The worker leaves its loop: stdin_lock is dropped with the closure's
\* locals; the captured tx is dropped after them (WorkerExit).
WorkerBreak ==
    /\ wpc' = "exit"
    /\ stdinLock' = "free"

\* The worker: stdin_lock.read_line(&mut buffer), which blocks until the
\* source holds a whole line or is at end-of-stream.
WorkerReadLine ==
    /\ wpc = "read"
    /\ readers' = readers \cup {"worker"}
    /\ readLog' = LogRead("worker")
    /\ dropReads' = IF rxAlive THEN dropReads ELSE dropReads + 1
    /\ \/ \* Err(_) => break: the read fails
          /\ fault = "armed"
          /\ fault' = "fired"
          /\ WorkerBreak
          /\ UNCHANGED <<rpos, buffer>>
       \/ \* Ok(0) => break: end-of-stream
          /\ fault # "armed"
          /\ AtEof
          /\ WorkerBreak
          /\ UNCHANGED <<rpos, buffer, fault>>
       \/ \* Err(_) => break: the line is not valid UTF-8; its bytes are
          \* consumed and the buffer is left empty
          /\ fault # "armed"
          /\ Unread # <<>>
          /\ NewlineAt(Unread) > 0 \/ wclosed
          /\ ~IsUtf8(LineOf(Unread))
          /\ rpos' = rpos + Len(LineOf(Unread))
          /\ WorkerBreak
          /\ UNCHANGED <<buffer, fault>>
       \/ \* Ok(_): a line, with its terminator when it has one
          /\ fault # "armed"
          /\ Unread # <<>>
          /\ NewlineAt(Unread) > 0 \/ wclosed
          /\ IsUtf8(LineOf(Unread))
          /\ rpos' = rpos + Len(LineOf(Unread))
          /\ buffer' = LineOf(Unread)
          /\ wpc' = "send"
          /\ UNCHANGED <<stdinLock, fault>>
    /\ UNCHANGED <<isTerminal, input, wpos, wclosed>>
    /\ UNCHANGED <<mpc, txAlive, rxAlive, chan, sent, received, lastRecv>>
    /\ UNCHANGED <<aggVars, secondVars, tokVars>>

\* A slip: the unit is pushed to the front of the queue.
WorkerSendFront ==
    /\ wpc = "send"
    /\ \/ /\ rxAlive
          /\ chan' = <<Trim(buffer)>> \o chan
          /\ sent' = Append(sent, [line |-> buffer, unit |-> Trim(buffer)])
          /\ wpc' = "read"
          /\ UNCHANGED stdinLock
       \/ /\ ~rxAlive
          /\ WorkerBreak
          /\ UNCHANGED <<chan, sent>>
    /\ UNCHANGED <<isTerminal, input, wpos, wclosed, rpos, fault, readers, readLog>>
    /\ UNCHANGED <<mpc, buffer, txAlive, rxAlive, received, lastRecv, dropReads>>
    /\ UNCHANGED <<aggVars, secondVars, tokVars>>

\* A slip: the result of send is ignored and the loop goes on.
WorkerSendIgnoresError ==
    /\ wpc = "send"
    /\ chan' = IF rxAlive THEN Append(chan, Trim(buffer)) ELSE chan
    /\ sent' = IF rxAlive
               THEN Append(sent, [line |-> buffer, unit |-> Trim(buffer)])
               ELSE sent
    /\ wpc' = "read"
    /\ UNCHANGED stdinLock
    /\ UNCHANGED <<isTerminal, input, wpos, wclosed, rpos, fault, readers, readLog>>
    /\ UNCHANGED <<mpc, buffer, txAlive, rxAlive, received, lastRecv, dropReads>>
    /\ UNCHANGED <<aggVars, secondVars, tokVars>>

\* A slip: stdin is locked for each read instead of for the whole loop, so
\* the lock is free between two reads.
WorkerSendReleasesLock ==
    /\ wpc = "send"
    /\ \/ /\ rxAlive
          /\ chan' = Append(chan, Trim(buffer))
          /\ sent' = Append(sent, [line |-> buffer, unit |-> Trim(buffer)])
          /\ wpc' = "lock"
          /\ stdinLock' = "free"
       \/ /\ ~rxAlive
          /\ WorkerBreak
          /\ UNCHANGED <<chan, sent>>
    /\ UNCHANGED <<isTerminal, input, wpos, wclosed, rpos, fault, readers, readLog>>
    /\ UNCHANGED <<mpc, buffer, txAlive, rxAlive, received, lastRecv, dropReads>>
    /\ UNCHANGED <<aggVars, secondVars, tokVars>>

\* The worker: tx.send(buffer.trim().to_string()), which fails only when
\* the receiver has been dropped.
WorkerSend ==
    /\ wpc = "send"
    /\ \/ /\ rxAlive
          /\ chan' = Append(chan, Trim(buffer))
          /\ sent' = Append(sent, [line |-> buffer, unit |-> Trim(buffer)])
          /\ wpc' = "read"
          /\ UNCHANGED stdinLock
       \/ \* is_err() => break
          /\ ~rxAlive
          /\ WorkerBreak
          /\ UNCHANGED <<chan, sent>>
    /\ UNCHANGED <<isTerminal, input, wpos, wclosed, rpos, fault, readers, readLog>>
    /\ UNCHANGED <<mpc, buffer, txAlive, rxAlive, received, lastRecv, dropReads>>
    /\ UNCHANGED <<aggVars, secondVars, tokVars>>

\* The worker's closure returns: tx is dropped and the channel closes.
WorkerExit ==
    /\ wpc = "exit"
    /\ wpc' = "done"
    /\ txAlive' = FALSE
    /\ UNCHANGED <<mpc, buffer, rxAlive, chan, sent, received, lastRecv, dropReads>>
    /\ UNCHANGED <<envVars, aggVars, secondVars, tokVars>>

\* ------------------------------------------- the consumer of the stream
\* A slip of the channel: a dropped sender is reported before the units
\* still queued are handed out.
TryRecvDisconnectFirst ==
    /\ mpc = "hasRx"
    /\ \/ /\ chan # <<>>
          /\ txAlive
          /\ received' = Append(received, Head(chan))
          /\ chan' = Tail(chan)
          /\ lastRecv' = "ok"
       \/ /\ chan = <<>>
          /\ txAlive
          /\ lastRecv' = "empty"
          /\ UNCHANGED <<chan, received>>
       \/ /\ ~txAlive
          /\ lastRecv' = "disconnected"
          /\ UNCHANGED <<chan, received>>
    /\ UNCHANGED <<mpc, wpc, buffer, txAlive, rxAlive, sent, dropReads>>
    /\ UNCHANGED <<envVars, aggVars, secondVars, tokVars>>

\* rx.try_recv(): Ok(unit), Err(Empty) or Err(Disconnected).
TryRecv ==
    /\ mpc = "hasRx"
    /\ \/ /\ chan # <<>>
          /\ received' = Append(received, Head(chan))
          /\ chan' = Tail(chan)
          /\ lastRecv' = "ok"
       \/ /\ chan = <<>>
          /\ txAlive
          /\ lastRecv' = "empty"
          /\ UNCHANGED <<chan, received>>
       \/ /\ chan = <<>>
          /\ ~txAlive
          /\ lastRecv' = "disconnected"
          /\ UNCHANGED <<chan, received>>
    /\ UNCHANGED <<mpc, wpc, buffer, txAlive, rxAlive, sent, dropReads>>
    /\ UNCHANGED <<envVars, aggVars, secondVars, tokVars>>

\* rx.recv(): blocks until a unit is queued or the sender is gone.
Recv ==
    /\ mpc = "hasRx"
    /\ \/ /\ chan # <<>>
          /\ received' = Append(received, Head(chan))
          /\ chan' = Tail(chan)
          /\ lastRecv' = "ok"
       \/ /\ chan = <<>>
          /\ ~txAlive
          /\ lastRecv' = "disconnected"
          /\ UNCHANGED <<chan, received>>
    /\ UNCHANGED <<mpc, wpc, buffer, txAlive, rxAlive, sent, dropReads>>
    /\ UNCHANGED <<envVars, aggVars, secondVars, tokVars>>

\* The consumer drops its receiver; the units still queued go with it.
DropReceiver ==
    /\ mpc = "hasRx"
    /\ mpc' = "dropped"
    /\ rxAlive' = FALSE
    /\ chan' = <<>>
    /\ UNCHANGED <<wpc, buffer, txAlive, sent, received, lastRecv, dropReads>>
    /\ UNCHANGED <<envVars, aggVars, secondVars, tokVars>>

\* ------------------------------- a second call of spawn_stdin_stream
\* The second call, in any thread of the host: as the first, with a channel
\* of its own.
SpawnSecondStream ==
    /\ m2pc = "start"
    /\ m2pc' = "hasRx"
    /\ chan2' = <<>>
    /\ w2pc' = IF StdinIsTerminal THEN "none" ELSE "lock"
    /\ UNCHANGED buffer2
    /\ UNCHANGED <<envVars, streamVars, aggVars, tokVars>>

\* The second worker: let mut stdin_lock = stdin.lock();
Worker2Lock ==
    /\ w2pc = "lock"
    /\ stdinLock = "free"
    /\ stdinLock' = "worker2"
    /\ w2pc' = "read"
    /\ UNCHANGED <<isTerminal, input, wpos, wclosed, rpos, fault, readers, readLog>>
    /\ UNCHANGED <<m2pc, buffer2, chan2>>
    /\ UNCHANGED <<streamVars, aggVars, tokVars>>

\* The second worker leaves its loop: its stdin_lock is dropped.
Worker2Break ==
    /\ w2pc' = "exit"
    /\ stdinLock' = "free"

\* The second worker: stdin_lock.read_line(&mut buffer)
Worker2ReadLine ==
    /\ w2pc = "read"
    /\ readers' = readers \cup {"worker2"}
    /\ readLog' = LogRead("worker2")
    /\ \/ \* Err(_) => break: the read fails
          /\ fault = "armed"
          /\ fault' = "fired"
          /\ Worker2Break
          /\ UNCHANGED <<rpos, buffer2>>
       \/ \* Ok(0) => break: end-of-stream
          /\ fault # "armed"
          /\ AtEof
          /\ Worker2Break
          /\ UNCHANGED <<rpos, buffer2, fault>>
       \/ \* Err(_) => break: the line is not valid UTF-8
          /\ fault # "armed"
          /\ Unread # <<>>
          /\ NewlineAt(Unread) > 0 \/ wclosed
          /\ ~IsUtf8(LineOf(Unread))
          /\ rpos' = rpos + Len(LineOf(Unread))
          /\ Worker2Break
          /\ UNCHANGED <<buffer2, fault>>
       \/ \* Ok(_): a line, with its terminator when it has one
          /\ fault # "armed"
          /\ Unread # <<>>
          /\ NewlineAt(Unread) > 0 \/ wclosed
          /\ IsUtf8(LineOf(Unread))
          /\ rpos' = rpos + Len(LineOf(Unread))
          /\ buffer2' = LineOf(Unread)
          /\ w2pc' = "send"
          /\ UNCHANGED <<stdinLock, fault>>
    /\ UNCHANGED <<isTerminal, input, wpos, wclosed>>
    /\ UNCHANGED <<m2pc, chan2>>
    /\ UNCHANGED <<streamVars, aggVars, tokVars>>

\* The second worker: tx.send(buffer.trim().to_string()), which fails only
\* when the second receiver has been dropped.
Worker2Send ==
    /\ w2pc = "send"
    /\ \/ /\ m2pc = "hasRx"
          /\ chan2' = Append(chan2, Trim(buffer2))
          /\ w2pc' = "read"
          /\ UNCHANGED stdinLock
       \/ \* is_err() => break
          /\ m2pc = "dropped"
          /\ Worker2Break
          /\ UNCHANGED chan2
    /\ UNCHANGED <<isTerminal, input, wpos, wclosed, rpos, fault, readers, readLog>>
    /\ UNCHANGED <<m2pc, buffer2>>
    /\ UNCHANGED <<streamVars, aggVars, tokVars>>

\* The second worker's closure returns.
Worker2Exit ==
    /\ w2pc = "exit"
    /\ w2pc' = "done"
    /\ UNCHANGED <<m2pc, buffer2, chan2>>
    /\ UNCHANGED <<envVars, streamVars, aggVars, tokVars>>

\* The holder of the second receiver drops it.
DropSecondReceiver ==
    /\ m2pc = "hasRx"
    /\ m2pc' = "dropped"
    /\ chan2' = <<>>
    /\ UNCHANGED <<w2pc, buffer2>>
    /\ UNCHANGED <<envVars, streamVars, aggVars, tokVars>>

\* ---------------------------------------------- get_stdin_or_default
\* The call, up to the terminal check: on a terminal the default is
\* returned at once; otherwise the call goes on to read the source.
GetStdinOrDefault ==
    /\ gpc = "idle"
    /\ Len(gresults) < MaxCalls
    /\ \E d \in Defaults :
          /\ gdefault' = d
          /\ IF StdinIsTerminal
             THEN /\ gresults' = Append(gresults,
                                      [default |-> d, result |-> UnwrapOr(d, <<>>),
                                       read |-> FALSE])
                  /\ gpc' = "idle"
             ELSE /\ gpc' = "lock"
                  /\ UNCHANGED gresults
    /\ gbuf' = <<>>
    /\ UNCHANGED <<envVars, streamVars, tokVars, secondVars>>

\* io::stdin().read_to_end(..) takes the lock of stdin for the whole read.
GsLock ==
    /\ gpc = "lock"
    /\ stdinLock = "free"
    /\ stdinLock' = "caller"
    /\ gpc' = "reading"
    /\ UNCHANGED <<isTerminal, input, wpos, wclosed, rpos, fault, readers, readLog>>
    /\ UNCHANGED <<gdefault, gbuf, gresults>>
    /\ UNCHANGED <<streamVars, tokVars, secondVars>>

\* read_to_end: takes what the source holds, again and again, and returns
\* at end-of-stream only; .expect(..) panics when the read fails.
GsReadToEnd ==
    /\ gpc = "reading"
    /\ readers' = readers \cup {"caller"}
    /\ readLog' = LogRead("caller")
    /\ \/ \* the read fails: the lock is released, expect panics
          /\ fault = "armed"
          /\ fault' = "fired"
          /\ stdinLock' = "free"
          /\ gpc' = "panicked"
          /\ UNCHANGED <<rpos, gbuf, gresults>>
       \/ \* some bytes are there: they are appended to the buffer
          /\ fault # "armed"
          /\ Unread # <<>>
          /\ gbuf' = gbuf \o Unread
          /\ rpos' = wpos
          /\ UNCHANGED <<fault, stdinLock, gpc, gresults>>
       \/ \* end-of-stream: the buffer, or the default when it is empty
          /\ fault # "armed"
          /\ AtEof
          /\ stdinLock' = "free"
          /\ gresults' = Append(gresults,
                                [default |-> gdefault,
                                 result |-> GetStdinResult(gbuf, gdefault),
                                 read |-> TRUE])
          /\ gpc' = "idle"
          /\ UNCHANGED <<fault, rpos, gbuf>>
    /\ UNCHANGED <<isTerminal, input, wpos, wclosed>>
    /\ UNCHANGED gdefault
    /\ UNCHANGED <<streamVars, tokVars, secondVars>>

\* ------------------------------------------------ tokio-example-app
\* main, steps 2 and 3: the async channel is created and the forwarder
\* thread is spawned with the stream's receiver and the async sender.
TokioSpawnForwarder ==
    /\ mpc = "hasRx"
    /\ mpc' = "await"
    /\ tchan' = <<>>
    /\ ttxAlive' = TRUE
    /\ fpc' = "recv"
    /\ UNCHANGED <<fchunk, mchunk, receivedAny, stdout>>
    /\ UNCHANGED <<wpc, buffer, txAlive, rxAlive, chan, sent, received, lastRecv, dropReads>>
    /\ UNCHANGED <<envVars, aggVars, secondVars>>

\* The forwarder: while let Ok(chunk) = blocking_stdin_stream.recv(); when
\* the loop ends the closure returns and drops the receiver and the sender.
FwdRecv ==
    /\ fpc = "recv"
    /\ \/ /\ chan # <<>>
          /\ fchunk' = Head(chan)
          /\ received' = Append(received, Head(chan))
          /\ chan' = Tail(chan)
          /\ lastRecv' = "ok"
          /\ fpc' = "send"
          /\ UNCHANGED <<rxAlive, ttxAlive>>
       \/ /\ chan = <<>>
          /\ ~txAlive
          /\ lastRecv' = "disconnected"
          /\ fpc' = "done"
          /\ rxAlive' = FALSE
          /\ ttxAlive' = FALSE
          /\ UNCHANGED <<fchunk, received, chan>>
    /\ UNCHANGED <<tchan, mchunk, receivedAny, stdout>>
    /\ UNCHANGED <<mpc, wpc, buffer, txAlive, sent, dropReads>>
    /\ UNCHANGED <<envVars, aggVars, secondVars>>

\* A slip: the async channel is not bounded.
FwdSendUnbounded ==
    /\ fpc = "send"
    /\ tchan' = Append(tchan, fchunk)
    /\ fpc' = "recv"
    /\ UNCHANGED <<fchunk, ttxAlive, mchunk, receivedAny, stdout>>
    /\ UNCHANGED <<streamVars, envVars, aggVars, secondVars>>

\* The forwarder: tx.blocking_send(chunk), which waits for room in the
\* bounded channel; main keeps the async receiver until it leaves its loop,
\* which it does only once the sender is gone, so the send never fails.
FwdSend ==
    /\ fpc = "send"
    /\ Len(tchan) < BUFFER_SIZE
    /\ tchan' = Append(tchan, fchunk)
    /\ fpc' = "recv"
    /\ UNCHANGED <<fchunk, ttxAlive, mchunk, receivedAny, stdout>>
    /\ UNCHANGED <<streamVars, envVars, aggVars, secondVars>>

\* main: while let Some(chunk) = rx.recv().await { received_any = true; ..
MainRecv ==
    /\ mpc = "await"
    /\ \/ /\ tchan # <<>>
          /\ mchunk' = Head(tchan)
          /\ tchan' = Tail(tchan)
          /\ receivedAny' = TRUE
          /\ mpc' = "write"
       \/ /\ tchan = <<>>
          /\ ~ttxAlive
          /\ mpc' = "after"
          /\ UNCHANGED <<mchunk, tchan, receivedAny>>
    /\ UNCHANGED <<fpc, fchunk, ttxAlive, stdout>>
    /\ UNCHANGED <<wpc, buffer, txAlive, rxAlive, chan, sent, received, lastRecv, dropReads>>
    /\ UNCHANGED <<envVars, aggVars, secondVars>>

\* main, after the sleep: io::stdout().write_all(&chunk)
MainWrite ==
    /\ mpc = "write"
    /\ stdout' = stdout \o mchunk
    /\ mpc' = "await"
    /\ UNCHANGED <<fpc, fchunk, tchan, ttxAlive, mchunk, receivedAny>>
    /\ UNCHANGED <<wpc, buffer, txAlive, rxAlive, chan, sent, received, lastRecv, dropReads>>
    /\ UNCHANGED <<envVars, aggVars, secondVars>>

\* A slip: the fallback is written whether or not anything was received.
MainFallbackAlways ==
    /\ mpc = "after"
    /\ stdout' = stdout \o FALLBACK_VALUE
    /\ mpc' = "exit"
    /\ UNCHANGED <<fpc, fchunk, tchan, ttxAlive, mchunk, receivedAny>>
    /\ UNCHANGED <<wpc, buffer, txAlive, rxAlive, chan, sent, received, lastRecv, dropReads>>
    /\ UNCHANGED <<envVars, aggVars, secondVars>>

\* main, step 5: if !received_any { write_all(FALLBACK_VALUE) }
MainFallback ==
    /\ mpc = "after"
    /\ stdout' = IF ~receivedAny THEN stdout \o FALLBACK_VALUE ELSE stdout
    /\ mpc' = "exit"
    /\ UNCHANGED <<fpc, fchunk, tchan, ttxAlive, mchunk, receivedAny>>
    /\ UNCHANGED <<wpc, buffer, txAlive, rxAlive, chan, sent, received, lastRecv, dropReads>>
    /\ UNCHANGED <<envVars, aggVars, secondVars>>

\* -------------------------------------------------- specifications
Source == WriterWrite \/ WriterClose \/ SourceFails
Worker == WorkerLock \/ WorkerReadLine \/ WorkerSend \/ WorkerExit

\* spawn_stdin_stream under a host that takes a stream and polls it, waits
\* on it or drops it.
Next ==
    \/ Source
    \/ SpawnStdinStream
    \/ Worker
    \/ TryRecv
    \/ Recv
    \/ DropReceiver

Spec == Init /\ [][Next]_vars

\* The whole library: a host that takes a stream in one thread while another
\* of its threads calls get_stdin_or_default on the same source.
InitShared == InitWith(SeqsUpTo(Alphabet, MaxSharedLen))

NextShared ==
    \/ Source
    \/ SpawnStdinStream
    \/ Worker
    \/ TryRecv
    \/ Recv
    \/ DropReceiver
    \/ GetStdinOrDefault
    \/ GsLock
    \/ GsReadToEnd

SpecShared == InitShared /\ [][NextShared]_vars

\* Every reader of the source at once: two streams and, in a third thread,
\* calls of get_stdin_or_default. The receivers are held or dropped, their
\* units are not taken.
Worker2 == Worker2Lock \/ Worker2ReadLine \/ Worker2Send \/ Worker2Exit

NextReaders ==
    \/ Source
    \/ SpawnStdinStream
    \/ Worker
    \/ DropReceiver
    \/ SpawnSecondStream
    \/ Worker2
    \/ DropSecondReceiver
    \/ GetStdinOrDefault
    \/ GsLock
    \/ GsReadToEnd

\* The inputs the readers share: lines of one letter, blank lines, an
\* unterminated tail, and a line that is not valid UTF-8 before a valid one.
InitReaders == InitWith(SeqsUpTo({LF, 97}, MaxSharedLen) \cup {<<190, LF, 97>>})

SpecReaders == InitReaders /\ [][NextReaders]_vars

\* get_stdin_or_default alone, as test_binary calls it, on the enumerated
\* inputs and on the inputs of the tests.
InitAggregate == InitWith(Inputs \cup {TestBinaryInput, TestTextInput})

NextAggregate ==
    \/ Source
    \/ GetStdinOrDefault
    \/ GsLock
    \/ GsReadToEnd

SpecAggregate == InitAggregate /\ [][NextAggregate]_vars

\* tokio-example-app.
InitTokio == InitWith(Inputs \cup {TestBinaryInput, TestTextInput})

NextTokio ==
    \/ Source
    \/ SpawnStdinStream
    \/ Worker
    \/ TokioSpawnForwarder
    \/ FwdRecv
    \/ FwdSend
    \/ MainRecv
    \/ MainWrite
    \/ MainFallback

SpecTokio == InitTokio /\ [][NextTokio]_vars

\* tokio-example-app on inputs of blank lines, up to more lines than the
\* async channel holds; every thread that can run does run in the end, and
\* the writer writes its input and closes.
BlankLines(n) == [i \in 1..n |-> LF]

InitTokioLong == InitWith({BlankLines(n) : n \in 0..(BUFFER_SIZE + ExtraLines)})

SpecTokioFair ==
    /\ InitTokioLong
    /\ [][NextTokio]_vars
    /\ WF_vars(WriterWrite)
    /\ WF_vars(WriterClose)
    /\ WF_vars(SpawnStdinStream)
    /\ WF_vars(Worker)
    /\ WF_vars(TokioSpawnForwarder)
    /\ WF_vars(FwdRecv)
    /\ WF_vars(FwdSend)
    /\ WF_vars(MainRecv)
    /\ WF_vars(MainWrite)
    /\ WF_vars(MainFallback)

\* spawn_stdin_stream under a consumer that only does blocking receives, as
\* the forwarder of tokio-example-app does. Every thread that can run does
\* run in the end, and the writer writes its input and closes.
NextBlocking ==
    \/ Source
    \/ SpawnStdinStream
    \/ Worker
    \/ Recv

SpecBlocking ==
    /\ Init
    /\ [][NextBlocking]_vars
    /\ WF_vars(WriterWrite)
    /\ WF_vars(WriterClose)
    /\ WF_vars(SpawnStdinStream)
    /\ WF_vars(Worker)
    /\ WF_vars(Recv)

\* ------------------------------------------------------------ claims
Units(s) == [i \in 1..Len(s) |-> s[i].unit]
IsPrefix(s, t) == Len(s) <= Len(t) /\ s = SubSeq(t, 1, Len(s))
IsBlank(s) == \A i \in 1..Len(s) : IsWhitespace(s[i])

\* The line without its terminator ("\n" or "\r\n"), nothing else removed.
StripTerminator(s) ==
    LET n == Len(s) IN
    IF n >= 2 /\ s[n] = LF /\ s[n - 1] = 13 THEN SubSeq(s, 1, n - 2)
    ELSE IF n >= 1 /\ s[n] = LF THEN SubSeq(s, 1, n - 1)
    ELSE s

\* C1: when the source is a terminal nothing ever reads it: no read call is
\* made or pending, no byte is consumed, the lock of stdin is never taken,
\* spawn_stdin_stream starts no worker, and every get_stdin_or_default
\* returns its fallback, or the empty bytes when it has none.
C1_InteractiveNeverReads ==
    isTerminal =>
        /\ readers = {}
        /\ rpos = 0
        /\ stdinLock = "free"
        /\ wpc = "none"
        /\ gpc = "idle"
        /\ \A k \in 1..Len(gresults) :
              /\ ~gresults[k].read
              /\ gresults[k].result =
                    IF gresults[k].default.some THEN gresults[k].default.val ELSE <<>>

\* Both functions have been called on a terminal that has bytes to give.
C1_Witness ==
    /\ isTerminal
    /\ mpc = "hasRx"
    /\ Len(gresults) >= 1
    /\ wpos > 0

\* C2: on a terminal the receiver spawn_stdin_stream returned is closed and
\* empty: no sender, nothing queued, no unit ever received, and every poll
\* or blocking receive made so far reported disconnected.
C2_InteractiveReceiverClosed ==
    (isTerminal /\ mpc # "start") =>
        /\ ~txAlive
        /\ chan = <<>>
        /\ received = <<>>
        /\ lastRecv \in {"none", "disconnected"}

\* The receiver of a terminal's stream has been polled, with bytes typed.
C2_Witness ==
    /\ isTerminal
    /\ lastRecv = "disconnected"
    /\ wpos > 0

\* C3: the units received are a prefix of the units sent, in order, and
\* while the consumer keeps its receiver the units received followed by the
\* units queued are exactly the units sent.
C3_FifoExactlyOnce ==
    /\ IsPrefix(received, Units(sent))
    /\ rxAlive => received \o chan = Units(sent)

\* Two different units have been received, in the order they were sent.
C3_Witness ==
    /\ Len(received) >= 2
    /\ received[1] # received[2]

C6_PipelineEchoesInput ==
    (mpc = "exit" /\ ~isTerminal /\ input # <<>> /\ wclosed /\ fault = "none") =>
        stdout = input

\* C7: on a piped source at immediate end-of-stream every call of
\* get_stdin_or_default, the first and the repeated ones, returns its
\* fallback, and the empty bytes when it was given none.
C7_EmptyInputReturnsDefault ==
    (~isTerminal /\ input = <<>>) =>
        \A k \in 1..Len(gresults) :
            gresults[k].result =
                IF gresults[k].default.some THEN gresults[k].default.val ELSE <<>>

\* Two calls with different fallbacks have returned on an empty pipe.
C7_Witness ==
    /\ ~isTerminal
    /\ input = <<>>
    /\ Len(gresults) = 2
    /\ gresults[1].default # gresults[2].default
    /\ gresults[1].read

\* C8: a piped input that is not empty but blank (spaces and newlines only)
\* makes get_stdin_or_default return its fallback.
C8_BlankInputReturnsDefault ==
    (~isTerminal /\ input # <<>> /\ IsBlank(input) /\ Len(gresults) >= 1) =>
        gresults[1].result =
            IF gresults[1].default.some THEN gresults[1].default.val ELSE <<>>

\* C9: get_stdin_or_default never waits on the writer of the pipe: while
\* it reads, its read can complete without the writer writing or closing.
C9_NeverWaitsOnWriter ==
    gpc = "reading" => ENABLED GsReadToEnd

\* C10: the thread that calls spawn_stdin_stream performs no read of the
\* source, and the call can return in whatever state the source is.
C10_SpawnDoesNotRead ==
    /\ "main" \notin readers
    /\ mpc = "start" => ENABLED SpawnStdinStream

\* The call has returned on a pipe that has delivered nothing and is open,
\* while the worker waits in its read.
C10_Witness ==
    /\ ~isTerminal
    /\ mpc = "hasRx"
    /\ wpc = "read"
    /\ wpos = 0
    /\ ~wclosed

\* The number of lines of s: one per LF, and one more for a tail without.
RECURSIVE CountLF(_)
CountLF(s) ==
    IF s = <<>> THEN 0
    ELSE (IF Head(s) = LF THEN 1 ELSE 0) + CountLF(Tail(s))

NumLines(s) ==
    CountLF(s) + (IF s # <<>> /\ s[Len(s)] # LF THEN 1 ELSE 0)

\* C11: when the consumer of a pipe that was written whole and closed, with
\* no read failure, is told the channel is closed, it has received one unit
\* for each line of the input and the worker has terminated.
C11_EachLineThenClosed ==
    (lastRecv = "disconnected" /\ ~isTerminal /\ wclosed /\ fault = "none") =>
        /\ wpc = "done"
        /\ Len(received) = NumLines(input)

\* The part of C11 that is about termination: the consumer is told in the
\* end that the channel is closed, the worker having terminated and every
\* unit it sent having been received once.
StreamEventuallyCloses ==
    <>[](/\ lastRecv = "disconnected"
         /\ wpc \in {"done", "none"}
         /\ received = Units(sent))

\* C12: once the consumer has dropped its receiver the worker completes at
\* most one more read, and it never goes back to reading after that read
\* or after a send that failed.
C12_AtMostOneReadAfterDrop ==
    /\ dropReads <= 1
    /\ (dropReads = 1 /\ wpc # "send") => wpc \in {"exit", "done"}
    /\ (mpc = "dropped" /\ wpc = "read") => dropReads = 0

\* The receiver was dropped, the worker read one more line, failed to send
\* it and has terminated.
C12_Witness ==
    /\ mpc = "dropped"
    /\ dropReads = 1
    /\ buffer # <<>>
    /\ rpos = Len(buffer)
    /\ wpc = "done"

\* C13: no read failure is fatal: get_stdin_or_default never panics.
C13_ReadFailureNotFatal ==
    gpc # "panicked"

\* What get_stdin_or_default returns on a terminal when it is given no
\* fallback: the result that stands for "no input was obtained".
NoInputResult == UnwrapOr(None, <<>>)

\* C14: with no fallback supplied, a call that obtained the input of a pipe
\* by reading it to its end, an empty input included, never returns the
\* value that a call returns when no input was obtained.
C14_EmptyInputDistinguishable ==
    \A k \in 1..Len(gresults) :
        (gresults[k].read /\ ~gresults[k].default.some) =>
            gresults[k].result # NoInputResult

\* The units of the lines of s that are valid UTF-8, in order.
RECURSIVE ValidUnits(_)
ValidUnits(s) ==
    IF s = <<>> THEN <<>>
    ELSE LET l == LineOf(s)
         IN  (IF IsUtf8(l) THEN <<Trim(l)>> ELSE <<>>)
                 \o ValidUnits(SubSeq(s, Len(l) + 1, Len(s)))

\* C16: a line that is not valid UTF-8 costs only its own unit: when the
\* worker has terminated on a pipe that was written whole and closed, with
\* no read failure and the receiver kept, it has sent the unit of every
\* valid line of the input, in order.
C16_MalformedLineSkipped ==
    (wpc = "done" /\ ~isTerminal /\ wclosed /\ fault = "none" /\ mpc = "hasRx") =>
        Units(sent) = ValidUnits(input)

\* C17: one unit per input line: when the worker has terminated on a pipe
\* that was written whole and closed, with no read failure and the receiver
\* kept, it has sent as many units as the input has lines, a blank line
\* counting for one and end-of-stream for none.
C17_OneUnitPerLine ==
    (wpc = "done" /\ ~isTerminal /\ wclosed /\ fault = "none" /\ mpc = "hasRx") =>
        Len(sent) = NumLines(input)

\* C15: whenever the consumer has been told the channel is closed, the
\* worker has terminated (or was never started), its sender is gone and
\* every unit it sent has been received; and from then on the consumer is
\* never given another unit.
C15_ClosedIsFinal ==
    [][/\ lastRecv' = "disconnected" =>
            /\ ~txAlive'
            /\ wpc' \in {"done", "none"}
            /\ chan' = <<>>
            /\ received' = Units(sent')
       /\ lastRecv = "disconnected" =>
            /\ lastRecv' = "disconnected"
            /\ received' = received]_vars

\* The consumer was told the channel is closed after a read failure ended
\* the worker, some units having been delivered before.
C15_Witness ==
    /\ lastRecv = "disconnected"
    /\ fault = "fired"
    /\ received # <<>>

\* C18: a stream worker holds the lock of stdin from its first read until
\* it leaves its loop, get_stdin_or_default holds it while it reads, and
\* all the reads of one worker form one run: neither the worker of another
\* stream nor get_stdin_or_default reads between two of them.
C18_WorkerIsSoleReader ==
    /\ wpc \in {"read", "send"} => stdinLock = "worker"
    /\ w2pc \in {"read", "send"} => stdinLock = "worker2"
    /\ gpc = "reading" => stdinLock = "caller"
    /\ Cardinality({i \in 1..Len(readLog) : readLog[i] = "worker"}) <= 1
    /\ Cardinality({i \in 1..Len(readLog) : readLog[i] = "worker2"}) <= 1

\* A second worker and get_stdin_or_default both wait for the lock while
\* the first worker, which has sent a unit, is in its next read with bytes
\* left to read.
C18_Witness ==
    /\ gpc = "lock"
    /\ w2pc = "lock"
    /\ wpc = "read"
    /\ sent # <<>>
    /\ rpos < Len(input)

\* The bytes of the units of s, one after the other.
RECURSIVE Flatten(_)
Flatten(s) == IF s = <<>> THEN <<>> ELSE Head(s) \o Flatten(Tail(s))

\* C19: until tokio-example-app exits its stdout holds only bytes of the
\* units received, and when it has exited stdout is the fallback if no
\* unit was received from the stream and the units received, without the
\* fallback, if any was.
C19_FallbackIffNothingReceived ==
    /\ mpc # "exit" => IsPrefix(stdout, Flatten(received))
    /\ mpc = "exit" =>
          stdout = IF received = <<>> THEN FALLBACK_VALUE ELSE Flatten(received)
    /\ mpc = "exit" => (receivedAny <=> received # <<>>)

\* The app has exited after receiving units, a first that is empty and a
\* second that is not.
C19_Witness ==
    /\ mpc = "exit"
    /\ Len(received) >= 2
    /\ received[1] = <<>>
    /\ received[2] # <<>>

\* C20: the async channel never holds more than BUFFER_SIZE units, main
\* leaves its loop only after the forwarder has ended and dropped the async
\* sender, the forwarder ends only after the worker has dropped its sender,
\* and the app exits in the end.
C20_PipelineTerminates ==
    /\ [](Len(tchan) <= BUFFER_SIZE)
    /\ [](mpc \in {"after", "exit"} => fpc = "done" /\ ~ttxAlive /\ tchan = <<>>)
    /\ [](fpc = "done" => ~txAlive /\ wpc \in {"done", "none"} /\ chan = <<>>)
    /\ <>(mpc = "exit")

\* The async channel is full and the forwarder waits to send one more unit
\* while the worker has yet another queued for it.
C20_Witness ==
    /\ Len(tchan) = BUFFER_SIZE
    /\ fpc = "send"
    /\ chan # <<>>

=============================================================================
